---------------------------- MODULE Spec2Model ----------------------------
(***************************************************************************)
(* Model of src/Main.py: the animated watch face.  The model covers the    *)
(* computational core of the script: polar_to_cartesian, init_animation,   *)
(* update_frame and the FuncAnimation driver that feeds frame indices.     *)
(*                                                                         *)
(* Numbers.  Python computes in binary floating point; the model computes  *)
(* in exact rationals [n, d] kept in lowest terms with d > 0, so equality  *)
(* of records is equality of values.  Python's /, // and % are RDiv,       *)
(* RFloorDiv and RMod with Python's sign rules (the result of % takes the  *)
(* sign of the divisor).  Division by zero is not a value: the operation   *)
(* that would perform it raises ZeroDivisionError, recorded in err.        *)
(*                                                                         *)
(* Trigonometry.  np.cos and np.sin are exact wherever their value at a    *)
(* rational number of degrees is rational (multiples of 90 degrees, and    *)
(* the values 1/2 and -1/2); elsewhere they stay symbolic terms            *)
(* k + c * fn(turns), with the angle reduced to [0, 1) turns.              *)
(***************************************************************************)
EXTENDS Integers, Sequences, FiniteSets, TLC

VARIABLES
  config,         \* the configuration constants FPS, START_HOUR, START_MINUTE,
                  \* START_SECOND the script runs with          (lines 46-51)
  hour_line,      \* Line2D data of the hour hand                (line 187)
  minute_line,    \* Line2D data of the minute hand              (line 190)
  second_line,    \* Line2D data of the second hand              (line 193)
  birthday_text,  \* Text artist: text, alpha, position          (line 204)
  last_call,      \* the function called last: "none", "init_animation" or
                  \* "update_frame"
  frame,          \* argument of the last update_frame call
  locals,         \* local variables of the last update_frame call
  err,            \* exception raised by the last call, "none" if it returned
  pc,             \* position of the script / FuncAnimation driver
  frame_seq,      \* FuncAnimation's frame iterator: the next index it yields
  p2c             \* arguments and result of the last polar_to_cartesian call

vars == <<config, hour_line, minute_line, second_line, birthday_text, last_call,
          frame, locals, err, pc, frame_seq, p2c>>

\* What a call records about itself.
call == <<last_call, frame, locals, err>>

artists == <<hour_line, minute_line, second_line, birthday_text>>

---------------------------------------------------------------------------
(* Exact rational arithmetic with Python's operator semantics.             *)

Abs(i) == IF i < 0 THEN -i ELSE i

RECURSIVE GCD(_, _)
GCD(a, b) == IF b = 0 THEN a ELSE GCD(b, a % b)

Rat(n, d) ==
  LET g == GCD(Abs(n), Abs(d))
      s == IF d < 0 THEN -1 ELSE 1
  IN  [n |-> s * (n \div g), d |-> s * (d \div g)]

R(i) == [n |-> i, d |-> 1]

RAdd(a, b) == Rat(a.n * b.d + b.n * a.d, a.d * b.d)

RSub(a, b) == Rat(a.n * b.d - b.n * a.d, a.d * b.d)

RMul(a, b) == Rat(a.n * b.n, a.d * b.d)

\* Python's a / b for b # 0 (b = 0 raises; callers test it first).
RDiv(a, b) == Rat(a.n * b.d, a.d * b.n)

RLt(a, b) == a.n * b.d < b.n * a.d

RLe(a, b) == a.n * b.d <= b.n * a.d

RAbs(a) == [n |-> Abs(a.n), d |-> a.d]

\* Python's a // b: floor(a / b), for b # 0 (\div rounds toward minus
\* infinity for a positive divisor).
RFloorDiv(a, b) ==
  LET num == a.n * b.d
      den == a.d * b.n
  IN  R(IF den > 0 THEN num \div den ELSE (0 - num) \div (0 - den))

\* Python's a % b: a - b * floor(a / b), the sign of b.
RMod(a, b) == RSub(a, RMul(b, RFloorDiv(a, b)))

---------------------------------------------------------------------------
(* np.deg2rad, np.cos, np.sin.  An angle in radians is kept as its number  *)
(* of turns (radians / 2 pi), a rational.                                   *)

deg2rad(theta_deg) == RDiv(theta_deg, R(360))

Exact(v) == [k |-> v, c |-> R(0), fn |-> "none", turns |-> R(0)]

Symbolic(fn, turns) == [k |-> R(0), c |-> R(1), fn |-> fn, turns |-> turns]

\* The angles, in turns reduced to [0, 1), at which cos or sin is rational.
Turns(n, d) == Rat(n, d)

CosOfTurns(a) ==
  CASE a = Turns(0, 1)                       -> Exact(R(1))
    [] a = Turns(1, 4) \/ a = Turns(3, 4)    -> Exact(R(0))
    [] a = Turns(1, 2)                       -> Exact(R(-1))
    [] a = Turns(1, 6) \/ a = Turns(5, 6)    -> Exact(Rat(1, 2))
    [] a = Turns(1, 3) \/ a = Turns(2, 3)    -> Exact(Rat(-1, 2))
    [] OTHER                                 -> Symbolic("cos", a)

SinOfTurns(a) ==
  CASE a = Turns(0, 1) \/ a = Turns(1, 2)    -> Exact(R(0))
    [] a = Turns(1, 4)                       -> Exact(R(1))
    [] a = Turns(3, 4)                       -> Exact(R(-1))
    [] a = Turns(1, 12) \/ a = Turns(5, 12)  -> Exact(Rat(1, 2))
    [] a = Turns(7, 12) \/ a = Turns(11, 12) -> Exact(Rat(-1, 2))
    [] OTHER                                 -> Symbolic("sin", a)

np_cos(theta_rad) == CosOfTurns(RMod(theta_rad, R(1)))

np_sin(theta_rad) == SinOfTurns(RMod(theta_rad, R(1)))

\* r * term and c0 + term on terms k + c * fn(turns).
Scale(r, term) ==
  IF RMul(r, term.c) = R(0)
  THEN Exact(RMul(r, term.k))
  ELSE [term EXCEPT !.k = RMul(r, term.k), !.c = RMul(r, term.c)]

Shift(c0, term) == [term EXCEPT !.k = RAdd(c0, term.k)]

---------------------------------------------------------------------------
(* 1. Configuration and helper functions.                                  *)

PolarPoint(r, theta_rad, center) ==
  <<Shift(center[1], Scale(r, np_cos(theta_rad))),
    Shift(center[2], Scale(r, np_sin(theta_rad)))>>

\* Faulty variant: angles increasing clockwise.
polar_to_cartesian_Clockwise(r, theta_deg, center) ==
  PolarPoint(r, deg2rad(RSub(R(0), theta_deg)), center)

polar_to_cartesian(r, theta_deg, center) == PolarPoint(r, deg2rad(theta_deg), center)

\* The default value of the parameter center.
DefaultCenter == <<R(0), R(0)>>

R_DIAL == Rat(90, 100)

TICK_LONG == Rat(12, 100)

TICK_SHORT == Rat(8, 100)

HOUR_HAND_LENGTH == Rat(50, 100)

MINUTE_HAND_LENGTH == Rat(75, 100)

SECOND_HAND_LENGTH == Rat(85, 100)

R_NUMERAL == RSub(R_DIAL, Rat(15, 100))

\* The values the script ships with.
ShippedStartHour == 12

ShippedStartMinute == 10

ShippedStartSecond == 30

ShippedFPS == 24

ANIM_DURATION == 10

TOTAL_FRAMES(c) == c.FPS * ANIM_DURATION

---------------------------------------------------------------------------
(* 4. Dynamic artists.                                                     *)

\* Line2D.set_data(xs, ys)
set_data(line, xs, ys) == [line EXCEPT !.x = xs, !.y = ys]

\* Text.set_text(s)
set_text(text, s) == [text EXCEPT !.text = s]

\* Text.set_alpha(a)
set_alpha(text, a) == [text EXCEPT !.alpha = a]

\* Text.set_position((x, y))
set_position(text, xy) == [text EXCEPT !.position = xy]

\* ax.plot([], [], ...): a line with no data.
EmptyLine == [x |-> <<>>, y |-> <<>>]

\* ax.text(0, -1.0, "", ..., alpha=0.0, ...)
NewBirthdayText == [text |-> "", alpha |-> R(0), position |-> <<R(0), R(-1)>>]

NoLocals == "NoLocals"

---------------------------------------------------------------------------
(* 5. Animation update functions.  c is the configuration the function     *)
(* reads from the module's globals, f the frame index.                     *)

\* A) elapsed time since start, in seconds (defined for FPS # 0).
elapsed_seconds(c, f) == RDiv(R(f), R(c.FPS))

total_seconds(c, f) ==
  RAdd(R(c.START_HOUR * 3600 + c.START_MINUTE * 60 + c.START_SECOND),
       elapsed_seconds(c, f))

\* Faulty variant: the hour taken without the wrap at twelve hours.
current_h_NoWrap(total) == RFloorDiv(total, R(3600))

current_h(total) == RFloorDiv(RMod(total, R(43200)), R(3600))

\* Faulty variant: the remainder taken within the half-day instead of the hour.
rem_OfHalfDay(total) == RMod(total, R(43200))

rem(total) == RMod(total, R(3600))

current_m(rem_) == RFloorDiv(rem_, R(60))

current_s(rem_) == RMod(rem_, R(60))

\* Faulty variant: the hour hand without the carry of the minutes.
hour_angle_NoMinuteCarry(h, m) == RSub(R(90), RMul(h, R(30)))

\* Faulty variant: the seconds carried into the minute hand unscaled.
minute_angle_UnscaledSeconds(m, s) == RSub(R(90), RAdd(RMul(m, R(6)), s))

\* B) each hand's angle, in degrees.
hour_angle(h, m) ==
  RSub(R(90), RAdd(RMul(h, R(30)), RMul(RDiv(m, R(60)), R(30))))

minute_angle(m, s) ==
  RSub(R(90), RAdd(RMul(m, R(6)), RMul(RDiv(s, R(60)), R(6))))

second_angle(s) == RSub(R(90), RMul(s, R(6)))

\* The local variables of update_frame(f) after parts A and B.
FrameLocals(c, f) ==
  LET total == total_seconds(c, f)
      h == current_h(total)
      r == rem(total)
      m == current_m(r)
      s == current_s(r)
  IN  [total_seconds |-> total, current_h |-> h, current_m |-> m, current_s |-> s,
       hour_angle |-> hour_angle(h, m), minute_angle |-> minute_angle(m, s),
       second_angle |-> second_angle(s)]

\* C) the endpoints of the hands; center is omitted in these calls.
hour_end(angle) == polar_to_cartesian(RMul(HOUR_HAND_LENGTH, R_DIAL), angle, DefaultCenter)

minute_end(angle) == polar_to_cartesian(RMul(MINUTE_HAND_LENGTH, R_DIAL), angle, DefaultCenter)

second_end(angle) == polar_to_cartesian(RMul(SECOND_HAND_LENGTH, R_DIAL), angle, DefaultCenter)

\* line.set_data([0, x], [0, y])
HandData(line, end) ==
  set_data(line, <<Exact(R(0)), end[1]>>, <<Exact(R(0)), end[2]>>)

\* D) fade-in and drift of the text.
fade_start_frame(c) == c.FPS * 1

\* Faulty variant: the fade ends thirty seconds in, past the last frame.
fade_end_frame_Late(c) == c.FPS * 30

fade_end_frame(c) == c.FPS * 3

\* The interpolation parameter of the middle branch; it divides by
\* fade_end_frame - fade_start_frame.
t(c, f) ==
  RDiv(R(f - fade_start_frame(c)), R(fade_end_frame(c) - fade_start_frame(c)))

\* Faulty variant: the opacity interpolated over fade_end_frame, not over the span.
alpha_OverFadeEnd(c, f) ==
  IF f < fade_start_frame(c) THEN R(0)
  ELSE IF f <= fade_end_frame(c)
       THEN RDiv(R(f - fade_start_frame(c)), R(fade_end_frame(c)))
  ELSE R(1)

alpha(c, f) ==
  IF f < fade_start_frame(c) THEN R(0)
  ELSE IF f <= fade_end_frame(c) THEN t(c, f)
  ELSE R(1)

y_text(c, f) ==
  IF f < fade_start_frame(c) THEN R(-1)
  ELSE IF f <= fade_end_frame(c) THEN RAdd(R(-1), RMul(Rat(1, 2), t(c, f)))
  ELSE Rat(-1, 2)

\* Whether update_frame(f) raises ZeroDivisionError: frame / FPS at its first
\* line, or the division by fade_end_frame - fade_start_frame.
RaisesZeroDivision(c, f) ==
  \/ c.FPS = 0
  \/ /\ fade_start_frame(c) <= f
     /\ f <= fade_end_frame(c)
     /\ fade_end_frame(c) = fade_start_frame(c)

\* Everything update_frame(f) computes before it calls the setters.
FrameValues(c, f) ==
  IF RaisesZeroDivision(c, f)
  THEN [err |-> "ZeroDivisionError"]
  ELSE LET l == FrameLocals(c, f)
       IN  [err |-> "none", locals |-> l,
            hour_end |-> hour_end(l.hour_angle),
            minute_end |-> minute_end(l.minute_angle),
            second_end |-> second_end(l.second_angle),
            alpha |-> alpha(c, f), y_text |-> y_text(c, f)]

---------------------------------------------------------------------------
(* Bounds of the model and the inputs drawn from them.                     *)

MaxFrame == 75

NegFrames == 2

MaxHalfDays == 2

MaxNear == 25

\* Frames in twelve hours at the shipped rate.
HalfDayFrames == 43200 * ShippedFPS

FrameInputs ==
  ((0 - NegFrames) .. MaxFrame)
    \cup {j * HalfDayFrames + i : j \in 1 .. MaxHalfDays, i \in 0 .. MaxNear}

FpsValues == {ShippedFPS, 1, 0, -1}

StartTimes ==
  {<<ShippedStartHour, ShippedStartMinute, ShippedStartSecond>>,
   <<11, 59, 59>>, <<23, 59, 59>>, <<0, 0, 0>>, <<3, 59, 59>>}

Configs ==
  {[FPS |-> fps, START_HOUR |-> st[1], START_MINUTE |-> st[2], START_SECOND |-> st[3]] :
     fps \in FpsValues, st \in StartTimes}

\* frames=TOTAL_FRAMES: the indices range(TOTAL_FRAMES), none if it is <= 0.
AnimFrames(c) == 0 .. (TOTAL_FRAMES(c) - 1)

\* FrameValues of every configuration and frame index of the model, computed
\* once; update_frame reads its values here.
FrameTable ==
  [c \in Configs |-> [f \in FrameInputs \cup AnimFrames(c) |-> FrameValues(c, f)]]

\* Faulty variant: the position set only once the fade has begun.
TextAfterUpdate_PositionInFadeOnly(text, v) ==
  IF v.alpha = R(0)
  THEN set_alpha(set_text(text, " Message "), v.alpha)
  ELSE set_position(set_alpha(set_text(text, " Message "), v.alpha), <<R(0), v.y_text>>)

\* The text artist after the three setters of update_frame.
TextAfterUpdate(text, v) ==
  set_position(set_alpha(set_text(text, " Message "), v.alpha), <<R(0), v.y_text>>)

init_animation ==
  /\ hour_line' = set_data(hour_line, <<>>, <<>>)
  /\ minute_line' = set_data(minute_line, <<>>, <<>>)
  /\ second_line' = set_data(second_line, <<>>, <<>>)
  /\ birthday_text' = set_alpha(set_text(birthday_text, ""), R(0))
  /\ last_call' = "init_animation"
  /\ frame' = frame
  /\ locals' = NoLocals
  /\ err' = "none"

update_frame(f) ==
  LET v == FrameTable[config][f]
  IN  /\ last_call' = "update_frame"
      /\ frame' = f
      /\ err' = v.err
      /\ IF v.err # "none"
         THEN /\ locals' = NoLocals
              /\ UNCHANGED artists
         ELSE /\ locals' = v.locals
              /\ hour_line' = HandData(hour_line, v.hour_end)
              /\ minute_line' = HandData(minute_line, v.minute_end)
              /\ second_line' = HandData(second_line, v.second_end)
              /\ birthday_text' = TextAfterUpdate(birthday_text, v)

\* No polar_to_cartesian call, no result yet, and the parameter center omitted.
NoCall == <<>>

NoResult == <<>>

Omitted == <<>>

InitArtists ==
  /\ hour_line = EmptyLine
  /\ minute_line = EmptyLine
  /\ second_line = EmptyLine
  /\ birthday_text = NewBirthdayText
  /\ last_call = "none"
  /\ frame = 0
  /\ locals = NoLocals
  /\ err = "none"
  /\ frame_seq = 0
  /\ p2c = NoCall

---------------------------------------------------------------------------
(* Spec: the functions called directly, in any order, with any frame       *)
(* index, under any configuration.                                         *)

Init ==
  /\ config \in Configs
  /\ InitArtists
  /\ pc = "call"

CallInitAnimation ==
  /\ pc = "call"
  /\ init_animation
  /\ UNCHANGED <<config, pc, frame_seq, p2c>>

CallUpdateFrame ==
  /\ pc = "call"
  /\ \E f \in FrameInputs : update_frame(f)
  /\ UNCHANGED <<config, pc, frame_seq, p2c>>

Next == CallInitAnimation \/ CallUpdateFrame

Spec == Init /\ [][Next]_vars

---------------------------------------------------------------------------
(* SpecAnim: 6. the script's run.  FuncAnimation is constructed, then      *)
(* anim.save draws init_func once and update_frame on every index of       *)
(* range(TOTAL_FRAMES) in order.                                           *)

InitAnim ==
  /\ config \in Configs
  /\ InitArtists
  /\ pc = "construct"

\* animation.FuncAnimation(..., interval=1000 / FPS, ...)
AnimConstruct ==
  /\ pc = "construct"
  /\ IF config.FPS = 0
     THEN /\ err' = "ZeroDivisionError"
          /\ pc' = "crashed"
     ELSE /\ err' = "none"
          /\ pc' = "init_draw"
  /\ UNCHANGED <<config, artists, last_call, frame, locals, frame_seq, p2c>>

AnimInitDraw ==
  /\ pc = "init_draw"
  /\ init_animation
  /\ pc' = "frames"
  /\ UNCHANGED <<config, frame_seq, p2c>>

AnimDrawFrame ==
  /\ pc = "frames"
  /\ frame_seq < TOTAL_FRAMES(config)
  /\ update_frame(frame_seq)
  /\ frame_seq' = frame_seq + 1
  /\ pc' = IF err' = "none" THEN "frames" ELSE "crashed"
  /\ UNCHANGED <<config, p2c>>

AnimSaved ==
  /\ pc = "frames"
  /\ frame_seq >= TOTAL_FRAMES(config)
  /\ pc' = "saved"
  /\ UNCHANGED <<config, artists, call, frame_seq, p2c>>

NextAnim == AnimConstruct \/ AnimInitDraw \/ AnimDrawFrame \/ AnimSaved

SpecAnim == InitAnim /\ [][NextAnim]_vars

\* anim.save runs to completion: nothing suspends the loop over the frames.
SpecAnimFair == SpecAnim /\ WF_vars(NextAnim)

---------------------------------------------------------------------------
(* SpecPolar: polar_to_cartesian called on its own.                        *)

MaxAngleSteps == 14

\* The radii of the script's own calls, and 0, 1, 2.
Radii ==
  {R(0), R(1), R(2), RSub(R_DIAL, Rat(2, 100)),
   RSub(RSub(R_DIAL, Rat(2, 100)), TICK_LONG), R_NUMERAL,
   RMul(SECOND_HAND_LENGTH, R_DIAL)}

\* 90 - h * 30 as in the tick loop, over several turns, and two angles at
\* which cos and sin are irrational.
Angles ==
  {R(90 - h * 30) : h \in (0 - MaxAngleSteps) .. MaxAngleSteps} \cup {R(45), R(85)}

Centers == {Omitted, <<R(0), R(0)>>, <<R(1), R(-2)>>, <<Rat(1, 2), R(3)>>}

InitPolar ==
  /\ config = [FPS |-> ShippedFPS, START_HOUR |-> ShippedStartHour,
               START_MINUTE |-> ShippedStartMinute, START_SECOND |-> ShippedStartSecond]
  /\ hour_line = EmptyLine
  /\ minute_line = EmptyLine
  /\ second_line = EmptyLine
  /\ birthday_text = NewBirthdayText
  /\ last_call = "none"
  /\ frame = 0
  /\ locals = NoLocals
  /\ err = "none"
  /\ frame_seq = 0
  /\ pc = "polar"
  /\ \E r \in Radii, theta_deg \in Angles, center \in Centers :
       p2c = [r |-> r, theta_deg |-> theta_deg, center |-> center, result |-> NoResult]

CallPolarToCartesian ==
  /\ pc = "polar"
  /\ p2c.result = NoResult
  /\ p2c' = [p2c EXCEPT !.result =
               polar_to_cartesian(p2c.r, p2c.theta_deg,
                 IF p2c.center = Omitted THEN DefaultCenter ELSE p2c.center)]
  /\ UNCHANGED <<config, artists, call, pc, frame_seq>>

NextPolar == CallPolarToCartesian

SpecPolar == InitPolar /\ [][NextPolar]_vars

---------------------------------------------------------------------------
(* Properties.                                                             *)

Returned == last_call = "update_frame" /\ err = "none"

\* C1: after update_frame(f) returns, for every frame index (negative, or
\* many half-days past the start) and every start time, the hour is an
\* integer in [0, 12), the minute an integer in [0, 60) and the second lies
\* in [0, 60).
C1_DecompositionInRange ==
  Returned =>
    /\ locals.current_h.d = 1
    /\ RLe(R(0), locals.current_h) /\ RLt(locals.current_h, R(12))
    /\ locals.current_m.d = 1
    /\ RLe(R(0), locals.current_m) /\ RLt(locals.current_m, R(60))
    /\ RLe(R(0), locals.current_s) /\ RLt(locals.current_s, R(60))

\* Two days after 23:59:59, one second later: 00:00:00 again.
C1_Witness ==
  /\ Returned
  /\ config.FPS = ShippedFPS
  /\ config.START_HOUR = 23
  /\ frame = 2 * HalfDayFrames + ShippedFPS
  /\ locals.current_h = R(0) /\ locals.current_m = R(0) /\ locals.current_s = R(0)

\* C2: with FPS > 0, the opacity and vertical offset left by update_frame(f)
\* are the three-phase function of f against fadeStart = FPS*1 and
\* fadeEnd = FPS*3, with the values (0, -1), (1/2, -3/4), (1, -1/2) at
\* fadeStart, the midpoint and fadeEnd; and whenever update_frame returns,
\* opacity is in [0, 1] and offset in [-1, -1/2].
C2_ThreePhaseOverlay ==
  Returned =>
    LET fadeStart == config.FPS * 1
        fadeEnd == config.FPS * 3
        opacity == birthday_text.alpha
        offset == birthday_text.position[2]
    IN  /\ RLe(R(0), opacity) /\ RLe(opacity, R(1))
        /\ RLe(R(-1), offset) /\ RLe(offset, Rat(-1, 2))
        /\ config.FPS > 0 =>
             /\ frame < fadeStart => opacity = R(0) /\ offset = R(-1)
             /\ (fadeStart <= frame /\ frame <= fadeEnd) =>
                  /\ opacity = Rat(frame - fadeStart, fadeEnd - fadeStart)
                  /\ offset = RAdd(R(-1), RMul(Rat(1, 2), opacity))
             /\ frame > fadeEnd => opacity = R(1) /\ offset = Rat(-1, 2)
             /\ frame = fadeStart => opacity = R(0) /\ offset = R(-1)
             /\ frame = fadeEnd => opacity = R(1) /\ offset = Rat(-1, 2)
             /\ 2 * frame = fadeStart + fadeEnd =>
                  opacity = Rat(1, 2) /\ offset = Rat(-3, 4)

C2_Witness ==
  /\ Returned
  /\ config.FPS = ShippedFPS
  /\ frame = 2 * ShippedFPS
  /\ birthday_text.alpha = Rat(1, 2)
  /\ birthday_text.position = <<R(0), Rat(-3, 4)>>

\* C3: whatever calls came before, the artists left by a returning
\* update_frame(f) are those left by update_frame(f) called alone on the
\* freshly created artists.
C3_StateIsFunctionOfFrame ==
  Returned =>
    LET v == FrameTable[config][frame]
    IN  /\ hour_line = HandData(EmptyLine, v.hour_end)
        /\ minute_line = HandData(EmptyLine, v.minute_end)
        /\ second_line = HandData(EmptyLine, v.second_end)
        /\ birthday_text = TextAfterUpdate(NewBirthdayText, v)

\* Frame 0 drawn (again): the text is back at its resting state.
C3_Witness ==
  /\ Returned
  /\ frame = 0
  /\ config.FPS = ShippedFPS
  /\ birthday_text = [text |-> " Message ", alpha |-> R(0), position |-> <<R(0), R(-1)>>]
  /\ Len(second_line.x) = 2

\* C4: when fade_start_frame = fade_end_frame, update_frame does not divide
\* by zero and leaves the overlay at (0, -1) or at (1, -1/2).
C4_EqualThresholdsStep ==
  (last_call = "update_frame" /\ fade_start_frame(config) = fade_end_frame(config)) =>
    /\ err = "none"
    /\ <<birthday_text.alpha, birthday_text.position[2]>>
         \in {<<R(0), R(-1)>>, <<R(1), Rat(-1, 2)>>}

\* Frames f - 1 and f = frame are consecutive, f - 1 >= 0, and the second
\* wraps from 59.x at f - 1 to 0.x at f.
SecondWraps ==
  /\ Returned
  /\ frame >= 1
  /\ (frame - 1) \in FrameInputs
  /\ RLe(R(59), FrameTable[config][frame - 1].locals.current_s)
  /\ RLt(locals.current_s, R(1))

PrevMinuteAngle == FrameTable[config][frame - 1].locals.minute_angle

\* The distance of two angles as directions: modulo 360 degrees.
AngDist(a, b) ==
  LET d == RMod(RSub(a, b), R(360))
  IN  IF RLe(d, R(180)) THEN d ELSE RSub(R(360), d)

\* C5 as claimed: where the second wraps between consecutive frames, the
\* values of minute_angle differ by at most 6 degrees.
C5_MinuteAngleStepAtMost6 ==
  SecondWraps => RLe(RAbs(RSub(locals.minute_angle, PrevMinuteAngle)), R(6))

\* C5 as amended: where the second wraps between consecutive frames, the
\* values of minute_angle differ, as directions (modulo 360 degrees), by at
\* most 6 degrees; their values differ by at most 6 unless the minute wraps
\* from 59 to 0 with it.
C5_MinuteDirectionStepAtMost6 ==
  SecondWraps =>
    /\ RLe(AngDist(locals.minute_angle, PrevMinuteAngle), R(6))
    /\ locals.current_m # R(0) =>
         RLe(RAbs(RSub(locals.minute_angle, PrevMinuteAngle)), R(6))

\* 11:59:59 plus one second: the second, the minute and the hour wrap together.
C5_Witness ==
  /\ SecondWraps
  /\ config.FPS = ShippedFPS
  /\ config.START_HOUR = 11
  /\ frame = ShippedFPS
  /\ locals.current_m = R(0)
  /\ locals.minute_angle = R(90)

\* C6: after update_frame(f) returns, hour*3600 + minute*60 + second equals
\* total mod 43200, total = START_HOUR*3600 + START_MINUTE*60 + START_SECOND
\* + f/FPS.
C6_ComponentsSumToTotal ==
  Returned =>
    LET total == RAdd(R(config.START_HOUR * 3600 + config.START_MINUTE * 60
                        + config.START_SECOND),
                      Rat(frame, config.FPS))
    IN  RAdd(RAdd(RMul(locals.current_h, R(3600)), RMul(locals.current_m, R(60))),
             locals.current_s)
          = RMod(total, R(43200))

\* 3:59:59 plus one second: at the rollover the minute and hour have advanced.
C6_Witness ==
  /\ Returned
  /\ config.FPS = ShippedFPS
  /\ config.START_HOUR = 3
  /\ frame = ShippedFPS
  /\ locals.current_h = R(4) /\ locals.current_m = R(0) /\ locals.current_s = R(0)

\* C7: update_frame(0) with the start time 12:10:30 gives hour 0, minute 10,
\* second 30 and the angles 85, 27 and -90 degrees.
C7_ShippedStartAngles ==
  (/\ Returned
   /\ frame = 0
   /\ config.START_HOUR = 12 /\ config.START_MINUTE = 10 /\ config.START_SECOND = 30) =>
    /\ locals.current_h = R(0) /\ locals.current_m = R(10) /\ locals.current_s = R(30)
    /\ locals.hour_angle = R(85)
    /\ locals.minute_angle = R(27)
    /\ locals.second_angle = R(-90)

C7_Witness ==
  /\ Returned
  /\ frame = 0
  /\ config.FPS = ShippedFPS
  /\ config.START_HOUR = ShippedStartHour
  /\ locals.hour_angle = R(85)
  /\ Len(hour_line.x) = 2

Malformed(c) == c.FPS <= 0 \/ TOTAL_FRAMES(c) = 0

\* C8: a malformed configuration (FPS <= 0 or zero total frames) is rejected
\* when constructed: the script's run never gets past the construction of
\* the animation with it, and update_frame never runs under it.
C8_MalformedConfigRejected ==
  Malformed(config) => (pc \in {"construct", "crashed"} /\ last_call # "update_frame")

\* C9: at multiples of 90 degrees polar_to_cartesian(r, theta_deg, center)
\* is center + (r, 0), (0, r), (-r, 0), (0, -r) for theta_deg = 0, 90, 180,
\* 270 modulo 360, center being the origin when omitted; at every other
\* angle it returns a point too (no error case).
C9_PolarConvention ==
  p2c.result # NoResult =>
    LET c == IF p2c.center = Omitted THEN <<R(0), R(0)>> ELSE p2c.center
        q == RMod(p2c.theta_deg, R(360))
        r == p2c.r
        P(x, y) == <<Exact(x), Exact(y)>>
    IN  /\ q = R(0) => p2c.result = P(RAdd(c[1], r), c[2])
        /\ q = R(90) => p2c.result = P(c[1], RAdd(c[2], r))
        /\ q = R(180) => p2c.result = P(RSub(c[1], r), c[2])
        /\ q = R(270) => p2c.result = P(c[1], RSub(c[2], r))
        /\ (p2c.theta_deg = R(45) /\ r # R(0)) =>
             p2c.result = <<[k |-> c[1], c |-> r, fn |-> "cos", turns |-> Rat(1, 8)],
                            [k |-> c[2], c |-> r, fn |-> "sin", turns |-> Rat(1, 8)]>>
        /\ Len(p2c.result) = 2

\* polar_to_cartesian(1, 90) == (0, 1), center omitted.
C9_Witness ==
  /\ p2c.result # NoResult
  /\ p2c.r = R(1) /\ p2c.theta_deg = R(90) /\ p2c.center = Omitted
  /\ p2c.result = <<Exact(R(0)), Exact(R(1))>>

TextAtRest == birthday_text.alpha = R(1) /\ birthday_text.position = <<R(0), Rat(-1, 2)>>

\* C10: in the script's run with FPS > 0 the opacity starts at 0, never
\* decreases from one step to the next, reaches 1 at frame FPS*3, which is
\* below TOTAL_FRAMES, and once 1 stays 1 with the text at offset -1/2
\* through the last frame, TOTAL_FRAMES - 1.
C10_TextFadesInAndStays ==
  /\ birthday_text.alpha = R(0)
  /\ [][RLe(birthday_text.alpha, birthday_text'.alpha)]_vars
  /\ [][birthday_text.alpha = R(1) => TextAtRest /\ TextAtRest']_vars
  /\ [](config.FPS > 0 => config.FPS * 3 < TOTAL_FRAMES(config))
  /\ <>(config.FPS <= 0 \/ (frame = config.FPS * 3 /\ TextAtRest))
  /\ []((pc = "saved" /\ config.FPS > 0) =>
          (frame = TOTAL_FRAMES(config) - 1 /\ TextAtRest))

C10_Witness ==
  /\ pc = "saved"
  /\ config.FPS = ShippedFPS
  /\ frame = ShippedFPS * ANIM_DURATION - 1
  /\ TextAtRest

===========================================================================
